---- MODULE Spec2Model ----
(***************************************************************************)
(* A model of the mcp-agents context router (src/src/context-router.ts)    *)
(* and of the agents' instruction dispatch (solana-defi-agent,             *)
(* nft-market-agent).  Strings that the code transforms (capabilities,     *)
(* compared through toLowerCase) are sequences of one-character strings;   *)
(* strings the code only stores, compares or echoes are TLA+ strings.      *)
(***************************************************************************)
EXTENDS Integers, Sequences, FiniteSets, TLC

VARIABLES contexts, latest, overwritten, last, call, agent, resp

vars == <<contexts, latest, overwritten, last, call, agent, resp>>

(***************************************************************************)
(* Bounds                                                                  *)
(***************************************************************************)
\* longest directory listing handed to loadContexts
MaxFiles == 2
\* longest capability list handed to findContextsByCapabilities
MaxRequired == 2

(***************************************************************************)
(* Generic helpers                                                         *)
(***************************************************************************)
Range(s) == {s[i] : i \in DOMAIN s}

SeqsUpTo(S, n) == UNION {[1..k -> S] : k \in 0..n}

InjectiveSeqsUpTo(S, n) ==
  {s \in SeqsUpTo(S, n) : \A i, j \in DOMAIN s : i # j => s[i] # s[j]}

(***************************************************************************)
(* String.prototype.toLowerCase on the ASCII letters the model uses.       *)
(***************************************************************************)
LowerChar(c) ==
  CASE c = "T" -> "t"
    [] c = "S" -> "s"
    [] c = "R" -> "r"
    [] c = "O" -> "o"
    [] c = "G" -> "g"
    [] c = "V" -> "v"
    [] c = "N" -> "n"
    [] c = "F" -> "f"
    [] c = "L" -> "l"
    [] OTHER -> c

ToLowerCase(s) == [i \in DOMAIN s |-> LowerChar(s[i])]

(***************************************************************************)
(* Capability strings, spelled by the initials of their words:             *)
(* "Token_Swaps" is T_S, "token_swaps" is t_s, "governance_voting" g_v.    *)
(***************************************************************************)
Token_Swaps == <<"T", "_", "S">>
token_swaps == <<"t", "_", "s">>
governance_voting == <<"g", "_", "v">>

\* capability strings a caller may ask for
RequiredStrings == {Token_Swaps, token_swaps, governance_voting}

(***************************************************************************)
(* ContextType and ContextDefinition                                       *)
(***************************************************************************)
ContextType ==
  {"dex", "nft_marketplace", "oracle", "governance", "social", "identity", "storage"}

ContextIds == {"jupiter-dex-v4", "pyth"}

JupiterDex ==
  [id |-> "jupiter-dex-v4", name |-> "Jupiter Aggregator", type |-> "dex",
   capabilities |-> <<Token_Swaps, governance_voting>>]

JupiterDexV6 ==
  [id |-> "jupiter-dex-v4", name |-> "Jupiter v6", type |-> "dex",
   capabilities |-> <<token_swaps>>]

JupiterOracle ==
  [id |-> "jupiter-dex-v4", name |-> "Jupiter Aggregator", type |-> "oracle",
   capabilities |-> <<>>]

PythOracle ==
  [id |-> "pyth", name |-> "Pyth Network", type |-> "oracle",
   capabilities |-> <<governance_voting>>]

PythDex ==
  [id |-> "pyth", name |-> "Pyth Swap", type |-> "dex",
   capabilities |-> <<token_swaps, governance_voting>>]

PythBare ==
  [id |-> "pyth", name |-> "Pyth Network", type |-> "oracle", capabilities |-> <<>>]

\* the definitions callers register: the fields the router reads
ContextDefinition ==
  {JupiterDex, JupiterDexV6, JupiterOracle, PythOracle, PythDex, PythBare}

\* ids a caller may ask for: the registrable ones and one that never is
RequestedIds == ContextIds \cup {"unknown-context"}

(***************************************************************************)
(* Map<string, ContextDefinition>: entries in insertion order, one per key *)
(***************************************************************************)
NewMap == <<>>

MapHas(m, k) == \E i \in DOMAIN m : m[i].key = k

MapIndex(m, k) == CHOOSE i \in DOMAIN m : m[i].key = k

\* Map.get of a key the map holds
MapGet(m, k) == m[MapIndex(m, k)].value

\* a plausible bug: set() starts a new map
MapSetOnly(m, k, v) == <<[key |-> k, value |-> v]>>

\* a plausible bug: set() appends without looking for the key
MapSetAppend(m, k, v) == Append(m, [key |-> k, value |-> v])

\* Map.set: replaces the value in place, or appends a new entry
MapSet(m, k, v) ==
  IF MapHas(m, k)
    THEN [m EXCEPT ![MapIndex(m, k)] = [key |-> k, value |-> v]]
    ELSE Append(m, [key |-> k, value |-> v])

\* Map.values(), in iteration order
MapValues(m) == [i \in DOMAIN m |-> m[i].value]

\* a plausible bug: the entries are taken out of the map as they are read
ReadOnlyDrains(m) == NewMap

\* the map after a method that calls nothing but get, has and values on it
ReadOnly(m) == m

(***************************************************************************)
(* ContextRouter.registerContext                                           *)
(***************************************************************************)
registerContext(m, context) == MapSet(m, context.id, context)

\* ghost: the definition most recently registered under each id
NoDefinition == [none |-> TRUE]

Registered(l, context) == [l EXCEPT ![context.id] = context]

\* ghost: the ids under which a definition replaced a different one
Replaced(o, l, context) ==
  IF l[context.id] \notin {NoDefinition, context} THEN o \cup {context.id} ELSE o

(***************************************************************************)
(* Context definition files and directories (fs.readdirSync,               *)
(* fs.readFileSync, JSON.parse, yaml.parse).  A file holds a well-formed   *)
(* definition written as JSON or as YAML, or text that no parser accepts.  *)
(***************************************************************************)
\* What a file says, line by line: `key: scalar`, `key:` opening a block
\* list, `- item`, or `# comment`; in JSON, `"key": value` with the list
\* written in place.
Line(key, value) == [key |-> key, value |-> value]

JupiterDexYaml ==
  << Line("id", "jupiter-dex-v4"),
     Line("name", "Jupiter Aggregator"),
     Line("#", "a liquidity aggregator"),
     Line("type", "dex"),
     Line("capabilities", <<>>),
     Line("-", Token_Swaps),
     Line("-", governance_voting),
     Line("authRequired", "false") >>

JupiterDexV6Json ==
  << Line("id", "jupiter-dex-v4"),
     Line("name", "Jupiter v6"),
     Line("type", "dex"),
     Line("capabilities", <<token_swaps>>),
     Line("authRequired", "false") >>

PythOracleJson ==
  << Line("capabilities", <<governance_voting>>),
     Line("type", "oracle"),
     Line("name", "Pyth Network"),
     Line("id", "pyth") >>

PythOracleYaml ==
  << Line("id", "pyth"),
     Line("name", "Pyth Network"),
     Line("type", "oracle"),
     Line("capabilities", <<>>),
     Line("-", governance_voting) >>

\* text is what the file holds, def the definition that it declares
Files ==
  { [name |-> "jupiter-dex", ext |-> ".yaml", format |-> "yaml",
     text |-> JupiterDexYaml, def |-> JupiterDex],
    [name |-> "jupiter-v6", ext |-> ".json", format |-> "json",
     text |-> JupiterDexV6Json, def |-> JupiterDexV6],
    [name |-> "pyth", ext |-> ".yml", format |-> "json",
     text |-> PythOracleJson, def |-> PythOracle],
    [name |-> "broken", ext |-> ".json", format |-> "yaml",
     text |-> PythOracleYaml, def |-> PythOracle],
    [name |-> "README", ext |-> ".txt", format |-> "garbage",
     text |-> <<Line("#", "notes")>>, def |-> NoDefinition] }

\* a directory that cannot be listed, and the listings readdirSync may return
Unlistable == [listable |-> FALSE, files |-> <<>>]

Directories ==
  {Unlistable} \cup
  {[listable |-> TRUE, files |-> s] : s \in InjectiveSeqsUpTo(Files, MaxFiles)}

\* file.endsWith('.yaml') || file.endsWith('.yml') || file.endsWith('.json')
RecognizedExtension(file) == file.ext \in {".yaml", ".yml", ".json"}

\* JSON.parse accepts JSON text only
JSONParses(file) == file.format = "json"

\* yaml.parse accepts YAML text, and JSON text as a YAML flow mapping
YAMLParses(file) == file.format \in {"yaml", "json"}

\* the parser chosen for the file accepts its content
Parses(file) == IF file.ext = ".json" THEN JSONParses(file) ELSE YAMLParses(file)

\* the scalar written under a key
Scalar(text, key) == text[CHOOSE i \in DOMAIN text : text[i].key = key].value

\* the items of the block list that opens at line i: the `- item` lines
\* that follow it, comments between them passed over
RECURSIVE BlockItems(_, _)
BlockItems(text, i) ==
  IF i > Len(text) THEN <<>>
  ELSE IF text[i].key = "#" THEN BlockItems(text, i + 1)
  ELSE IF text[i].key = "-" THEN <<text[i].value>> \o BlockItems(text, i + 1)
  ELSE <<>>

\* a plausible bug: the first item of a block list is taken for its header
BlockListSkipFirst(text, i) == BlockItems(text, i + 1)

BlockList(text, i) == BlockItems(text, i)

\* the list written under a key: in place (a flow sequence, as in JSON),
\* or as the block that follows the key
List(text, key) ==
  LET i == CHOOSE j \in DOMAIN text : text[j].key = key
  IN  IF text[i].value # <<>> THEN text[i].value ELSE BlockList(text, i + 1)

\* the object JSON.parse or yaml.parse builds from a text it accepts: the
\* fields of it that the router reads
ParseFile(file) ==
  [id |-> Scalar(file.text, "id"), name |-> Scalar(file.text, "name"),
   type |-> Scalar(file.text, "type"),
   capabilities |-> List(file.text, "capabilities")]

\* the loop of loadContexts from file i on: the registry it leaves, and
\* whether it threw (failedAt is the index of the file it threw at)
RECURSIVE LoadFiles(_, _, _)
LoadFiles(m, files, i) ==
  IF i > Len(files) THEN [contexts |-> m, outcome |-> "ok", failedAt |-> 0]
  ELSE IF ~RecognizedExtension(files[i]) THEN LoadFiles(m, files, i + 1)
  ELSE IF ~Parses(files[i]) THEN [contexts |-> m, outcome |-> "error", failedAt |-> i]
  ELSE LoadFiles(registerContext(m, ParseFile(files[i])), files, i + 1)

\* a plausible bug: a failed load restores the registry it started from
loadContextsRollback(m, dir) ==
  IF ~dir.listable THEN [contexts |-> m, outcome |-> "error", failedAt |-> 0]
  ELSE LET r == LoadFiles(m, dir.files, 1)
       IN  IF r.outcome = "error" THEN [r EXCEPT !.contexts = m] ELSE r

\* ContextRouter.loadContexts: the catch block logs and rethrows
loadContexts(m, dir) ==
  IF ~dir.listable THEN [contexts |-> m, outcome |-> "error", failedAt |-> 0]
  ELSE LoadFiles(m, dir.files, 1)

\* ghost: the definitions loadContexts registered, in order
RECURSIVE LoadedDefs(_, _)
LoadedDefs(files, upTo) ==
  IF upTo = 0 THEN <<>>
  ELSE IF RecognizedExtension(files[upTo]) /\ Parses(files[upTo])
    THEN Append(LoadedDefs(files, upTo - 1), ParseFile(files[upTo]))
    ELSE LoadedDefs(files, upTo - 1)

RECURSIVE RegisteredAll(_, _, _)
RegisteredAll(l, defs, i) ==
  IF i > Len(defs) THEN l ELSE RegisteredAll(Registered(l, defs[i]), defs, i + 1)

RECURSIVE ReplacedAll(_, _, _, _)
ReplacedAll(o, l, defs, i) ==
  IF i > Len(defs) THEN o
  ELSE ReplacedAll(Replaced(o, l, defs[i]), Registered(l, defs[i]), defs, i + 1)

(***************************************************************************)
(* The queries                                                             *)
(***************************************************************************)
\* a plausible bug: the stored capability is compared as it is spelled
hasAllCapabilitiesCaseSensitive(context, capabilities) ==
  \A i \in DOMAIN capabilities :
    \E j \in DOMAIN context.capabilities :
      context.capabilities[j] = ToLowerCase(capabilities[i])

\* a plausible bug: one requested capability is enough (some for every)
hasAllCapabilitiesAny(context, capabilities) ==
  \E i \in DOMAIN capabilities :
    \E j \in DOMAIN context.capabilities :
      ToLowerCase(context.capabilities[j]) = ToLowerCase(capabilities[i])

\* capabilities.every(cap => context.capabilities.some(contextCap => ...))
hasAllCapabilities(context, capabilities) ==
  \A i \in DOMAIN capabilities :
    \E j \in DOMAIN context.capabilities :
      ToLowerCase(context.capabilities[j]) = ToLowerCase(capabilities[i])

\* ContextRouter.findContextsByCapabilities
findContextsByCapabilities(m, capabilities) ==
  LET Match(context) == hasAllCapabilities(context, capabilities)
  IN  SelectSeq(MapValues(m), Match)

\* a plausible bug: the filter finds the first definition of the type only
findContextsByTypeFirst(m, type) ==
  LET Match(context) == context.type = type
      all == SelectSeq(MapValues(m), Match)
  IN  IF all = <<>> THEN <<>> ELSE <<all[1]>>

\* ContextRouter.findContextsByType
findContextsByType(m, type) ==
  LET Match(context) == context.type = type
  IN  SelectSeq(MapValues(m), Match)

(***************************************************************************)
(* Registry operations as steps                                            *)
(***************************************************************************)
NoOperation == [op |-> "none"]

RegisterContext(context) ==
  /\ contexts' = registerContext(contexts, context)
  /\ latest' = Registered(latest, context)
  /\ overwritten' = Replaced(overwritten, latest, context)
  /\ last' = [op |-> "registerContext", context |-> context,
              warned |-> MapHas(contexts, context.id)]
  /\ UNCHANGED <<call, agent, resp>>

LoadContexts(dir) ==
  LET r == loadContexts(contexts, dir)
      upTo == IF r.outcome = "ok" THEN Len(dir.files)
              ELSE IF r.failedAt = 0 THEN 0 ELSE r.failedAt - 1
  IN  /\ contexts' = r.contexts
      /\ latest' = RegisteredAll(latest, LoadedDefs(dir.files, upTo), 1)
      /\ overwritten' = ReplacedAll(overwritten, latest, LoadedDefs(dir.files, upTo), 1)
      /\ last' = [op |-> "loadContexts", dir |-> dir, outcome |-> r.outcome,
                  failedAt |-> r.failedAt, sizeBefore |-> Len(contexts)]
      /\ UNCHANGED <<call, agent, resp>>

FindContextsByCapabilities(capabilities) ==
  /\ last' = [op |-> "findContextsByCapabilities", capabilities |-> capabilities,
              result |-> findContextsByCapabilities(contexts, capabilities)]
  /\ contexts' = ReadOnly(contexts)
  /\ UNCHANGED <<latest, overwritten, call, agent, resp>>

\* ghost: the loadContexts call into an empty registry that a query follows
\* at once, if it does
Preceding ==
  IF last.op = "loadContexts" /\ last.sizeBefore = 0 THEN last ELSE NoOperation

FindContextsByType(type) ==
  /\ last' = [op |-> "findContextsByType", type |-> type,
              result |-> findContextsByType(contexts, type), after |-> Preceding]
  /\ contexts' = ReadOnly(contexts)
  /\ UNCHANGED <<latest, overwritten, call, agent, resp>>

(***************************************************************************)
(* Agents as the router sees them: getName and the outcome of getState.    *)
(* The two agents of the repository report the PublicKey they were built   *)
(* with; another subclass of Agent may report any agentId, or fail.        *)
(***************************************************************************)
AgentKinds == {"SolanaDeFiAgent", "NFTMarketAgent", "CustomAgent"}

getName(kind) ==
  CASE kind = "SolanaDeFiAgent" -> "Solana DeFi Agent"
    [] kind = "NFTMarketAgent" -> "Solana NFT Market Agent"
    [] OTHER -> "Custom Agent"

\* how `await agent.getState()` may settle: with an agentId that is a
\* base58 public key, with one that is not, or with a rejection
GetStateOutcomes(kind) ==
  IF kind = "CustomAgent" THEN {"validKey", "invalidKey", "rejects"} ELSE {"validKey"}

Requests == {"request-1", "request-2"}

Timestamps == {"t1", "t2"}

NoOutcome == [kind |-> "none"]

Resolved(v) == [kind |-> "resolved", value |-> v]

Rejected(e) == [kind |-> "rejected", error |-> e]

(***************************************************************************)
(* ContextRouter.checkPermission                                           *)
(***************************************************************************)
\* const context = this.contexts.get(contextId); if (!context) return false
\* a plausible bug: checkPermission does not look the context up
checkPermissionFoundAlways(m, contextId) == TRUE

checkPermissionFound(m, contextId) == MapHas(m, contextId)

\* ghost: the definition checkPermission found under the id
Seen(m, contextId) == IF MapHas(m, contextId) THEN MapGet(m, contextId) ELSE NoDefinition

\* a plausible bug: an agentId that is no public key is answered with a denial
checkPermissionAfterStateDeny(settled) ==
  CASE settled = "validKey" -> Resolved(TRUE)
    [] settled = "invalidKey" -> Resolved(FALSE)
    [] OTHER -> Rejected([error |-> "AgentState", message |-> <<"getState failed">>])

\* after `await agent.getState()`: new PublicKey(agentState.agentId) throws
\* for an agentId that is no public key; otherwise `return true`
checkPermissionAfterState(settled) ==
  CASE settled = "validKey" -> Resolved(TRUE)
    [] settled = "invalidKey" ->
         Rejected([error |-> "InvalidPublicKey", message |-> <<"Invalid public key input">>])
    [] OTHER -> Rejected([error |-> "AgentState", message |-> <<"getState failed">>])

(***************************************************************************)
(* ContextRouter.routeRequest, from the point where checkPermission has    *)
(* resolved to hasPermission                                               *)
(***************************************************************************)
PermissionDenied(kind, contextId) ==
  [error |-> "PermissionDenied",
   message |-> <<"Agent", getName(kind), "does not have permission to access context",
                 contextId>>]

NotFound(contextId) ==
  [error |-> "NotFound", message |-> <<"Context", contextId, "not found">>]

\* a plausible bug: the result of the permission check is not looked at
routeRequestAfterPermissionUnchecked(m, kind, contextId, request, hasPermission, now) ==
  IF ~MapHas(m, contextId) THEN Rejected(NotFound(contextId))
  ELSE Resolved([contextId |-> contextId, timestamp |-> now, status |-> "success",
                 data |-> [message |-> <<"Processed request to", MapGet(m, contextId).name>>,
                           requestSummary |-> request]])

\* a plausible bug: the message echoes the id of the context, not its name
routeRequestAfterPermissionEchoId(m, kind, contextId, request, hasPermission, now) ==
  IF ~hasPermission THEN Rejected(PermissionDenied(kind, contextId))
  ELSE IF ~MapHas(m, contextId) THEN Rejected(NotFound(contextId))
  ELSE Resolved([contextId |-> contextId, timestamp |-> now, status |-> "success",
                 data |-> [message |-> <<"Processed request to", MapGet(m, contextId).id>>,
                           requestSummary |-> request]])

routeRequestAfterPermission(m, kind, contextId, request, hasPermission, now) ==
  IF ~hasPermission THEN Rejected(PermissionDenied(kind, contextId))
  ELSE IF ~MapHas(m, contextId) THEN Rejected(NotFound(contextId))
  ELSE Resolved([contextId |-> contextId, timestamp |-> now, status |-> "success",
                 data |-> [message |-> <<"Processed request to", MapGet(m, contextId).name>>,
                           requestSummary |-> request]])

(***************************************************************************)
(* The asynchronous calls as steps.  call.pc is where the call is          *)
(* suspended: "awaitState" inside checkPermission at `await                *)
(* agent.getState()`, "awaitPermission" inside routeRequest at `await      *)
(* this.checkPermission(...)` once checkPermission has settled.            *)
(***************************************************************************)
Idle ==
  [op |-> "none", agent |-> "none", contextId |-> "none", request |-> "none",
   pc |-> "idle", found |-> FALSE, seen |-> NoDefinition, settled |-> "none",
   permission |-> "pending", outcome |-> NoOutcome]

CanCall == call.pc \in {"idle", "done"}

CheckPermissionCall(kind, contextId) ==
  /\ CanCall
  /\ LET found == checkPermissionFound(contexts, contextId)
     IN  call' = [op |-> "checkPermission", agent |-> kind, contextId |-> contextId,
                  request |-> "none", found |-> found, seen |-> Seen(contexts, contextId),
                  settled |-> "none",
                  permission |-> IF found THEN "pending" ELSE "denied",
                  pc |-> IF found THEN "awaitState" ELSE "done",
                  outcome |-> IF found THEN NoOutcome ELSE Resolved(FALSE)]
  /\ contexts' = ReadOnly(contexts)
  /\ UNCHANGED <<latest, overwritten, last, agent, resp>>

RouteRequestCall(kind, contextId, request) ==
  /\ CanCall
  /\ LET found == checkPermissionFound(contexts, contextId)
     IN  call' = [op |-> "routeRequest", agent |-> kind, contextId |-> contextId,
                  request |-> request, found |-> found, seen |-> Seen(contexts, contextId),
                  settled |-> "none",
                  permission |-> IF found THEN "pending" ELSE "denied",
                  pc |-> IF found THEN "awaitState" ELSE "awaitPermission",
                  outcome |-> NoOutcome]
  /\ contexts' = ReadOnly(contexts)
  /\ UNCHANGED <<latest, overwritten, last, agent, resp>>

GetStateSettles(settled) ==
  /\ call.pc = "awaitState"
  /\ settled \in GetStateOutcomes(call.agent)
  /\ LET r == checkPermissionAfterState(settled)
         permission == IF r.kind = "rejected" THEN "raised"
                       ELSE IF r.value THEN "granted" ELSE "denied"
     IN  call' =
           IF call.op = "checkPermission" \/ r.kind = "rejected"
             THEN [call EXCEPT !.pc = "done", !.settled = settled,
                               !.permission = permission, !.outcome = r]
             ELSE [call EXCEPT !.pc = "awaitPermission", !.settled = settled,
                               !.permission = permission]
  /\ contexts' = ReadOnly(contexts)
  /\ UNCHANGED <<latest, overwritten, last, agent, resp>>

RouteRequestResumes(now) ==
  /\ call.op = "routeRequest"
  /\ call.pc = "awaitPermission"
  /\ call' = [call EXCEPT
                !.pc = "done",
                !.outcome = routeRequestAfterPermission(contexts, call.agent,
                              call.contextId, call.request,
                              call.permission = "granted", now)]
  /\ contexts' = ReadOnly(contexts)
  /\ UNCHANGED <<latest, overwritten, last, agent, resp>>

(***************************************************************************)
(* The agents.  An optional value is a sequence of at most one element.    *)
(***************************************************************************)
Absent == <<>>

Some(v) == <<v>>

\* largest numeric setting (basis points) handed to a constructor
MaxBps == 2

DefaultSlippageBps == 50

DefaultRoyaltyBps == 500

\* a || b on an optional number: undefined and 0 are falsy
OrNumber(a, b) == IF a = Absent \/ a = Some(0) THEN b ELSE a[1]

\* a || b on an optional array or string: undefined and "" are falsy
OrValue(a, b) == IF a = Absent \/ a = Some("") THEN b ELSE a[1]

RepositoryAgents == {"SolanaDeFiAgent", "NFTMarketAgent"}

\* the constructor inputs: the subclass's part of DeFiAgentContext or NFTAgentContext
AgentContexts ==
  [supported : {Absent, Some(<<"Orca">>)},
   defaultBps : {Absent} \cup {Some(n) : n \in 0..MaxBps}]

\* SolanaDeFiAgent.constructor, NFTMarketAgent.constructor; `given` is a
\* ghost field, the argument the constructor was called with
Construct(kind, context) ==
  IF kind = "SolanaDeFiAgent"
    THEN [kind |-> kind, given |-> context,
          supported |-> OrValue(context.supported, <<"Jupiter", "Raydium">>),
          defaultBps |-> OrNumber(context.defaultBps, DefaultSlippageBps)]
    ELSE [kind |-> kind, given |-> context,
          supported |-> OrValue(context.supported, <<"Magic Eden", "Tensor">>),
          defaultBps |-> OrNumber(context.defaultBps, DefaultRoyaltyBps)]

\* SolanaDeFiAgent.getState, NFTMarketAgent.getState: supported stands for
\* supportedDexes or supportedMarketplaces, defaultBps for defaultSlippageBps
\* or defaultRoyaltyBps
getState(self) ==
  Resolved([agentId |-> "agentId", supported |-> self.supported,
            defaultBps |-> self.defaultBps])

(***************************************************************************)
(* Parsed instructions.  params is Record<string, any>: a parameter is a   *)
(* string, is missing (undefined), or is a value that cannot be converted  *)
(* to a string (a Symbol, an object with no toString), for which a         *)
(* template literal throws a TypeError.                                    *)
(***************************************************************************)
Missing == "<undefined>"

Unprintable == "<symbol>"

ParamValues == {"SOL", Missing, Unprintable}

ParamNames(action) ==
  CASE action = "swap" -> {"sourceToken", "targetToken", "amount"}
    [] action = "addLiquidity" -> {"poolId", "tokenA", "amountA", "tokenB", "amountB"}
    [] action = "checkPrice" -> {"token"}
    [] action = "listNFT" -> {"nftMint", "price", "marketplace"}
    [] action = "buyNFT" -> {"nftMint", "maxPrice"}
    [] action = "checkCollection" -> {"collectionAddress"}
    [] action = "mintNFT" -> {"metadataUri", "name", "symbol"}
    [] OTHER -> {}

ActionTags ==
  {"swap", "addLiquidity", "checkPrice", "listNFT", "buyNFT", "checkCollection",
   "mintNFT", "unknown"}

\* what `await parseInstruction(instruction)` may settle with
ParseOutcomes ==
  {Rejected("parser failed")} \cup
  UNION {{Resolved([action |-> a, params |-> ps, slippageBps |-> b]) :
            ps \in [ParamNames(a) -> ParamValues],
            b \in IF a = "swap" THEN {Absent, Some(0), Some(1)} ELSE {Absent}} :
         a \in ActionTags}

\* a template literal over these values throws
Throws(values) == Unprintable \in values

TypeError == "Cannot convert a Symbol value to a string"

Success(message, data) == [success |-> TRUE, message |-> message, data |-> data]

FailureWithoutError(message, code, errorMessage) ==
  [success |-> FALSE, message |-> message]

Failure(message, code, errorMessage) ==
  [success |-> FALSE, message |-> message,
   error |-> [code |-> code, message |-> errorMessage]]

(***************************************************************************)
(* The domain handlers: async functions, so a throw in the body is a       *)
(* rejected promise                                                        *)
(***************************************************************************)
handleSwap(sourceToken, targetToken, amount, slippageBps) ==
  IF Throws({amount, sourceToken, targetToken}) THEN Rejected(TypeError)
  ELSE Resolved(Success(
         <<"Simulated swap of", amount, sourceToken, "to", targetToken, "with",
           slippageBps, "/100 % slippage">>,
         [sourceToken |-> sourceToken, targetToken |-> targetToken, amount |-> amount,
          estimatedOutput |-> "123.45", route |-> "jupiter_v4"]))

handleAddLiquidity(poolId, tokenA, amountA, tokenB, amountB) ==
  IF Throws({poolId}) THEN Rejected(TypeError)
  ELSE Resolved(Success(
         <<"Added liquidity to pool", poolId>>,
         [poolId |-> poolId, tokenA |-> tokenA, amountA |-> amountA,
          tokenB |-> tokenB, amountB |-> amountB, lpTokens |-> "10.5"]))

handlePriceCheck(token) ==
  IF Throws({token}) THEN Rejected(TypeError)
  ELSE Resolved(Success(<<"Current price for", token>>,
                        [token |-> token, priceUsd |-> "1.23"]))

handleListNFT(self, nftMint, price, marketplace) ==
  IF Throws({nftMint, price, marketplace}) THEN Rejected(TypeError)
  ELSE Resolved(Success(
         <<"Listed NFT", nftMint, "for", price, "SOL on", marketplace>>,
         [nftMint |-> nftMint, price |-> price, marketplace |-> marketplace,
          fees |-> <<"parseFloat", price, "*", self.defaultBps, "/ 10000">>]))

handleBuyNFT(self, nftMint, maxPrice) ==
  IF Throws({nftMint, maxPrice}) THEN Rejected(TypeError)
  ELSE Resolved(Success(
         <<"Purchased NFT", nftMint, "for", maxPrice, "SOL">>,
         [nftMint |-> nftMint, pricePaid |-> maxPrice,
          marketplace |-> self.supported[1]]))

handleCollectionCheck(collectionAddress) ==
  IF Throws({collectionAddress}) THEN Rejected(TypeError)
  ELSE Resolved(Success(
         <<"Information about collection", collectionAddress>>,
         [collectionAddress |-> collectionAddress, floorPrice |-> "10.5",
          totalVolume |-> "1250.75", items |-> 10000, owners |-> 3500]))

handleMintNFT(metadataUri, name, symbol) ==
  IF Throws({name, symbol}) THEN Rejected(TypeError)
  ELSE Resolved(Success(
         <<"Minted new NFT:", name, "(", symbol, ")">>,
         [name |-> name, symbol |-> symbol, metadataUri |-> metadataUri,
          mintAddress |-> "Abc123...", owner |-> "agentId"]))

(***************************************************************************)
(* processInstruction                                                      *)
(***************************************************************************)
\* `return this.handleX(...)` inside try, without await: the promise of
\* processInstruction adopts the handler's promise, and a rejection of it
\* never reaches the catch block
ReturnFromTry(promise) == promise

\* the catch block
Caught(error) == Resolved(Failure(<<"Failed to process instruction">>, 500, error))

UnsupportedAsFailure(action) ==
  Resolved(Failure(<<"Unsupported action:", action>>, 500,
                   "The requested action is not supported by this agent"))

\* the default branch of the switch
Unsupported(action) ==
  Resolved(Failure(<<"Unsupported action:", action>>, 400,
                   "The requested action is not supported by this agent"))

\* SolanaDeFiAgent.processInstruction once parseInstruction has settled
processInstructionDeFi(self, parse) ==
  IF parse.kind = "rejected" THEN Caught(parse.error)
  ELSE LET action == parse.value.action
           params == parse.value.params
       IN  CASE action = "swap" ->
                  ReturnFromTry(handleSwap(params.sourceToken, params.targetToken,
                                  params.amount,
                                  OrNumber(parse.value.slippageBps, self.defaultBps)))
             [] action = "addLiquidity" ->
                  ReturnFromTry(handleAddLiquidity(params.poolId, params.tokenA,
                                  params.amountA, params.tokenB, params.amountB))
             [] action = "checkPrice" -> ReturnFromTry(handlePriceCheck(params.token))
             [] OTHER -> Unsupported(action)

\* NFTMarketAgent.processInstruction once parseInstruction has settled
processInstructionNFT(self, parse) ==
  IF parse.kind = "rejected" THEN Caught(parse.error)
  ELSE LET action == parse.value.action
           params == parse.value.params
       IN  CASE action = "listNFT" ->
                  ReturnFromTry(handleListNFT(self, params.nftMint, params.price,
                                  IF params.marketplace = Missing
                                    THEN self.supported[1] ELSE params.marketplace))
             [] action = "buyNFT" ->
                  ReturnFromTry(handleBuyNFT(self, params.nftMint, params.maxPrice))
             [] action = "checkCollection" ->
                  ReturnFromTry(handleCollectionCheck(params.collectionAddress))
             [] action = "mintNFT" ->
                  ReturnFromTry(handleMintNFT(params.metadataUri, params.name,
                                  params.symbol))
             [] OTHER -> Unsupported(action)

processInstruction(self, parse) ==
  IF self.kind = "SolanaDeFiAgent"
    THEN processInstructionDeFi(self, parse)
    ELSE processInstructionNFT(self, parse)

ProcessInstruction(parse) ==
  /\ resp' = [op |-> "processInstruction", parse |-> parse,
              result |-> processInstruction(agent, parse)]
  /\ UNCHANGED <<contexts, latest, overwritten, last, call, agent>>

(***************************************************************************)
(* parseInstruction.  An instruction is a string, a sequence of            *)
(* characters; the instructions of the model are words of Words, each      *)
(* after one space.                                                        *)
(***************************************************************************)
\* longest instruction, in words
MaxWords == 3

Words ==
  {<<"S", "w", "a", "p">>,
   <<"a", "d", "d">>,
   <<"l", "i", "q", "u", "i", "d", "i", "t", "y">>,
   <<"p", "r", "i", "c", "e">>,
   <<"o", "f">>,
   <<"f", "r", "o", "m">>,
   <<"t", "o">>,
   <<"S", "O", "L">>,
   <<"2", ".", "5">>,
   <<"l", "i", "s", "t", "N", "F", "T">>,
   <<"m", "i", "n", "t">>}

RECURSIVE Join(_)
Join(words) ==
  IF words = <<>> THEN <<>> ELSE <<" ">> \o Head(words) \o Join(Tail(words))

Instructions == {Join(words) : words \in SeqsUpTo(Words, MaxWords)}

Whitespace == {" "}

Digits == {"0", "1", "2", "3", "4", "5", "6", "7", "8", "9"}

\* \w, on lower-cased text
WordChars ==
  Digits \cup {"_"} \cup
  {"a", "b", "c", "d", "e", "f", "g", "h", "i", "j", "k", "l", "m", "n", "o", "p",
   "q", "r", "s", "t", "u", "v", "w", "x", "y", "z"}

\* String.prototype.trim
RECURSIVE Trim(_)
Trim(s) ==
  IF s = <<>> THEN s
  ELSE IF Head(s) \in Whitespace THEN Trim(Tail(s))
  ELSE IF s[Len(s)] \in Whitespace THEN Trim(SubSeq(s, 1, Len(s) - 1))
  ELSE s

\* s has the literal at index i
Literal(s, i, literal) ==
  /\ i + Len(literal) - 1 <= Len(s)
  /\ SubSeq(s, i, i + Len(literal) - 1) = literal

\* String.prototype.includes
Includes(s, literal) == \E i \in 1..Len(s) : Literal(s, i, literal)

\* the index where the longest run of characters of the class that starts
\* at i ends, i - 1 if there is none
RunEnd(s, i, class) ==
  LET ends == {j \in i..Len(s) : \A k \in i..j : s[k] \in class}
  IN  IF ends = {} THEN i - 1 ELSE CHOOSE j \in ends : \A k \in ends : k <= j

\* \s+(\w+) at index i: the captured group, if it matches
SpacesThenWord(s, i) ==
  LET spaces == RunEnd(s, i, Whitespace)
      word == RunEnd(s, spaces + 1, WordChars)
  IN  IF spaces >= i /\ word >= spaces + 1
        THEN Some(SubSeq(s, spaces + 1, word)) ELSE Absent

First(indices) == CHOOSE i \in indices : \A j \in indices : i <= j

\* s.match(/literal\s+(\w+)/): group 1 of the leftmost match
MatchAfter(s, literal) ==
  LET at(i) == IF Literal(s, i, literal)
                 THEN SpacesThenWord(s, i + Len(literal)) ELSE Absent
      starts == {i \in 1..Len(s) : at(i) # Absent}
  IN  IF starts = {} THEN Absent ELSE at(First(starts))

\* s.match(/price\s+of\s+(\w+)/)
MatchPriceOf(s) ==
  LET at(i) ==
        IF ~Literal(s, i, <<"p", "r", "i", "c", "e">>) THEN Absent
        ELSE LET spaces == RunEnd(s, i + 5, Whitespace)
             IN  IF spaces >= i + 5 /\ Literal(s, spaces + 1, <<"o", "f">>)
                   THEN SpacesThenWord(s, spaces + 3) ELSE Absent
      starts == {i \in 1..Len(s) : at(i) # Absent}
  IN  IF starts = {} THEN Absent ELSE at(First(starts))

\* s.match(/(\d+(\.\d+)?)\s+(\w+)/)
MatchAmount(s) ==
  LET at(i) ==
        LET whole == RunEnd(s, i, Digits)
            fraction == IF whole + 1 <= Len(s) /\ s[whole + 1] = "."
                          THEN RunEnd(s, whole + 2, Digits) ELSE whole
            number == IF fraction >= whole + 2 THEN fraction ELSE whole
        IN  IF whole >= i /\ SpacesThenWord(s, number + 1) # Absent
              THEN Some(SubSeq(s, i, number)) ELSE Absent
      starts == {i \in 1..Len(s) : at(i) # Absent}
  IN  IF starts = {} THEN Absent ELSE at(First(starts))

\* match ? match[1] : fallback
GroupOr(match, fallback) == IF match = Absent THEN fallback ELSE match[1]

\* parseInstruction on the lower-cased, trimmed instruction
Parse(s) ==
  IF \/ Includes(s, <<"s", "w", "a", "p">>)
     \/ Includes(s, <<"e", "x", "c", "h", "a", "n", "g", "e">>)
     \/ Includes(s, <<"t", "r", "a", "d", "e">>)
    THEN [action |-> "swap",
          params |->
            [sourceToken |-> GroupOr(MatchAfter(s, <<"f", "r", "o", "m">>),
                                     <<"S", "O", "L">>),
             targetToken |-> GroupOr(MatchAfter(s, <<"t", "o">>),
                                     <<"U", "S", "D", "C">>),
             amount |-> GroupOr(MatchAmount(s), <<"1", ".", "0">>)],
          slippageBps |-> Some(50)]
  ELSE IF \/ Includes(s, <<"a", "d", "d", " ", "l", "i", "q", "u", "i", "d", "i", "t", "y">>)
          \/ Includes(s, <<"p", "r", "o", "v", "i", "d", "e", " ",
                           "l", "i", "q", "u", "i", "d", "i", "t", "y">>)
    THEN [action |-> "addLiquidity",
          params |->
            [poolId |-> GroupOr(MatchAfter(s, <<"p", "o", "o", "l">>),
                                <<"d", "e", "f", "a", "u", "l", "t">>),
             tokenA |-> <<"S", "O", "L">>, amountA |-> <<"1", ".", "0">>,
             tokenB |-> <<"U", "S", "D", "C">>, amountB |-> <<"1", "0", ".", "0">>],
          slippageBps |-> Absent]
  ELSE IF \/ Includes(s, <<"p", "r", "i", "c", "e">>)
          \/ Includes(s, <<"v", "a", "l", "u", "e">>)
          \/ Includes(s, <<"w", "o", "r", "t", "h">>)
    THEN [action |-> "checkPrice",
          params |-> [token |-> GroupOr(MatchPriceOf(s), <<"S", "O", "L">>)],
          slippageBps |-> Absent]
  ELSE [action |-> "unknown", params |-> <<>>, slippageBps |-> Absent]

\* a plausible bug: the parser also knows the word mint
parseInstructionMint(instruction) ==
  LET s == Trim(ToLowerCase(instruction))
  IN  IF Includes(s, <<"m", "i", "n", "t">>)
        THEN Resolved([action |-> "mintNFT",
                       params |-> [metadataUri |-> Missing, name |-> s, symbol |-> s],
                       slippageBps |-> Absent])
        ELSE Resolved(Parse(s))

\* parseInstruction: an async function that does not throw on a string
parseInstruction(instruction) == Resolved(Parse(Trim(ToLowerCase(instruction))))

\* processInstruction with the parser of the repository
ProcessInstructionText ==
  /\ resp.op = "instruction"
  /\ LET parse == parseInstruction(resp.text)
     IN  resp' = [op |-> "processInstruction", instruction |-> resp.text,
                  parse |-> parse, result |-> processInstruction(agent, parse)]
  /\ UNCHANGED <<contexts, latest, overwritten, last, call, agent>>

GetState ==
  /\ resp' = [op |-> "getState", result |-> getState(agent)]
  /\ UNCHANGED <<contexts, latest, overwritten, last, call, agent>>

(***************************************************************************)
(* Initial states and specifications                                       *)
(***************************************************************************)
InitRouter ==
  /\ contexts = NewMap
  /\ latest = [id \in ContextIds |-> NoDefinition]
  /\ overwritten = {}
  /\ last = NoOperation
  /\ call = Idle

\* a router with a default agent beside it
Init ==
  /\ InitRouter
  /\ agent = Construct("SolanaDeFiAgent", [supported |-> Absent, defaultBps |-> Absent])
  /\ resp = NoOperation

\* an agent as any constructor call leaves it
InitAgent ==
  /\ InitRouter
  /\ agent \in {Construct(kind, context) : kind \in RepositoryAgents,
                                           context \in AgentContexts}
  /\ resp = NoOperation

\* registration, loading and the two queries
NextRegistry ==
  \/ \E context \in ContextDefinition : RegisterContext(context)
  \/ \E dir \in Directories : LoadContexts(dir)
  \/ \E capabilities \in SeqsUpTo(RequiredStrings, MaxRequired) :
       FindContextsByCapabilities(capabilities)
  \/ \E type \in ContextType : FindContextsByType(type)

SpecRegistry == Init /\ [][NextRegistry]_vars

\* checkPermission and routeRequest, with registrations between their steps
NextRoute ==
  \/ \E context \in ContextDefinition : RegisterContext(context)
  \/ \E kind \in AgentKinds, contextId \in RequestedIds :
       CheckPermissionCall(kind, contextId)
  \/ \E kind \in AgentKinds, contextId \in RequestedIds, request \in Requests :
       RouteRequestCall(kind, contextId, request)
  \/ \E settled \in {"validKey", "invalidKey", "rejects"} : GetStateSettles(settled)
  \/ \E now \in Timestamps : RouteRequestResumes(now)

SpecRoute == Init /\ [][NextRoute]_vars

\* every operation of the router, on one-file directories, requirements of
\* at most one capability, one request and one clock reading
NextRouter ==
  \/ \E context \in ContextDefinition : RegisterContext(context)
  \/ \E dir \in {d \in Directories : Len(d.files) <= 1} : LoadContexts(dir)
  \/ \E capabilities \in SeqsUpTo(RequiredStrings, 1) :
       FindContextsByCapabilities(capabilities)
  \/ \E type \in ContextType : FindContextsByType(type)
  \/ \E kind \in AgentKinds, contextId \in RequestedIds :
       CheckPermissionCall(kind, contextId)
  \/ \E kind \in AgentKinds, contextId \in RequestedIds :
       RouteRequestCall(kind, contextId, "request-1")
  \/ \E settled \in {"validKey", "invalidKey", "rejects"} : GetStateSettles(settled)
  \/ RouteRequestResumes("t1")

SpecRouter == Init /\ [][NextRouter]_vars

\* the agents' instruction dispatch
NextAgent ==
  \/ \E parse \in ParseOutcomes : ProcessInstruction(parse)
  \/ GetState

SpecAgent == InitAgent /\ [][NextAgent]_vars

\* an agent constructed with no settings is handed an instruction
InitParser ==
  /\ InitRouter
  /\ agent \in {Construct(kind, [supported |-> Absent, defaultBps |-> Absent]) :
                  kind \in RepositoryAgents}
  /\ resp \in {[op |-> "instruction", text |-> text] : text \in Instructions}

\* the agents' dispatch on what the parser of the repository returns
NextParser == ProcessInstructionText

SpecParser == InitParser /\ [][NextParser]_vars

(***************************************************************************)
(* What the claims speak of, stated apart from the operators above         *)
(***************************************************************************)
\* the registered definitions, by the record of registrations
RegisteredIds == {id \in ContextIds : latest[id] # NoDefinition}

RegisteredDefinitions == {latest[id] : id \in RegisteredIds}

NoDuplicates(seq) == \A i, j \in DOMAIN seq : seq[i] = seq[j] => i = j

\* an upper-case letter and its lower-case form
CasePairs ==
  {<<"T", "t">>, <<"S", "s">>, <<"R", "r">>, <<"O", "o">>, <<"G", "g">>, <<"V", "v">>}

SameLetter(c, d) == c = d \/ <<c, d>> \in CasePairs \/ <<d, c>> \in CasePairs

CaseInsensitiveEqual(a, b) ==
  Len(a) = Len(b) /\ \A i \in DOMAIN a : SameLetter(a[i], b[i])

\* the capability list of the definition holds every required capability
HoldsAll(definition, required) ==
  \A r \in Range(required) :
    \E c \in Range(definition.capabilities) : CaseInsensitiveEqual(c, r)

RouteDone == call.op = "routeRequest" /\ call.pc = "done"

CheckDone == call.op = "checkPermission" /\ call.pc = "done"

(***************************************************************************)
(* C1: routeRequest called with a contextId that is not registered fails   *)
(* with the 'context not found' error, not the 'permission denied' one.    *)
(***************************************************************************)
C1_UnregisteredIsNotFound ==
  (RouteDone /\ ~call.found) =>
    /\ call.outcome.kind = "rejected"
    /\ call.outcome.error = NotFound(call.contextId)

(***************************************************************************)
(* C2: processInstruction never raises to its caller; an exception raised  *)
(* by the parser or inside a domain handler comes back as an envelope      *)
(* with success = false and error.code = 500.                              *)
(***************************************************************************)
C2_NeverRaises ==
  resp.op = "processInstruction" =>
    /\ resp.result.kind = "resolved"
    /\ resp.parse.kind = "rejected" =>
         /\ resp.result.value.success = FALSE
         /\ resp.result.value.error = [code |-> 500, message |-> resp.parse.error]

(***************************************************************************)
(* C3: after any sequence of registerContext and loadContexts calls the    *)
(* registry holds at most one definition per id, the one most recently     *)
(* registered under it, and findContextsByType returns that one and never  *)
(* a definition it replaced.                                               *)
(***************************************************************************)
C3_LastWriteWins ==
  /\ \A i, j \in DOMAIN contexts : contexts[i].key = contexts[j].key => i = j
  /\ \A i \in DOMAIN contexts :
       /\ contexts[i].key \in RegisteredIds
       /\ contexts[i].value = latest[contexts[i].key]
  /\ \A id \in RegisteredIds : \E i \in DOMAIN contexts : contexts[i].key = id
  /\ last.op = "findContextsByType" =>
       /\ \A k \in DOMAIN last.result : last.result[k] = latest[last.result[k].id]
       /\ \A id \in RegisteredIds :
            latest[id].type = last.type => latest[id] \in Range(last.result)

\* a definition was replaced by a different one of the same type, and
\* findContextsByType then returned the second
C3_Witness ==
  /\ last.op = "findContextsByType"
  /\ \E id \in overwritten : latest[id] \in Range(last.result)
  /\ Len(contexts) = 1

(***************************************************************************)
(* C4: findContextsByCapabilities(required) returns exactly the registered *)
(* definitions whose capability list holds, compared without regard to     *)
(* case, every element of required, each once; the empty sequence when     *)
(* none does.                                                              *)
(***************************************************************************)
C4_CapabilitiesAreMatchedIgnoringCase ==
  last.op = "findContextsByCapabilities" =>
    /\ NoDuplicates(last.result)
    /\ Range(last.result) =
         {d \in RegisteredDefinitions : HoldsAll(d, last.capabilities)}

\* "Token_Swaps" is found by the query ["token_swaps", "governance_voting"],
\* and a registered context that lacks one of the two is left out
C4_Witness ==
  /\ last.op = "findContextsByCapabilities"
  /\ last.capabilities = <<token_swaps, governance_voting>>
  /\ last.result = <<JupiterDex>>
  /\ Len(contexts) = 2

(***************************************************************************)
(* C5: findContextsByCapabilities([]) returns every registered context,    *)
(* one result per registered id.                                           *)
(***************************************************************************)
C5_EmptyRequirementReturnsAll ==
  (last.op = "findContextsByCapabilities" /\ last.capabilities = <<>>) =>
    /\ Len(last.result) = Cardinality(RegisteredIds)
    /\ \A id \in RegisteredIds : latest[id] \in Range(last.result)

C5_Witness ==
  /\ last.op = "findContextsByCapabilities"
  /\ last.capabilities = <<>>
  /\ Len(last.result) = 2
  /\ \E k \in DOMAIN last.result : last.result[k].capabilities = <<>>

(***************************************************************************)
(* C6: findContextsByType(type) returns exactly the registered definitions *)
(* of that type, and the empty sequence when there is none.                *)
(***************************************************************************)
C6_TypeIsMatchedExactly ==
  last.op = "findContextsByType" =>
    /\ NoDuplicates(last.result)
    /\ Range(last.result) = {d \in RegisteredDefinitions : d.type = last.type}
    /\ Len(last.result) = Cardinality({d \in RegisteredDefinitions : d.type = last.type})

\* two registered definitions of the type asked for
C6_Witness ==
  /\ last.op = "findContextsByType"
  /\ last.type = "dex"
  /\ Len(last.result) = 2

\* a registry that holds definitions, none of the type asked for
C6_WitnessEmpty ==
  /\ last.op = "findContextsByType"
  /\ last.result = <<>>
  /\ Len(contexts) = 2

(***************************************************************************)
(* C7 as stated: checkPermission returns false when contextId is not       *)
(* registered and resolves to true for a registered contextId, for every   *)
(* agent; it has no other outcome.                                         *)
(***************************************************************************)
C7_NoOtherOutcome ==
  CheckDone => call.outcome = Resolved(call.found)

(***************************************************************************)
(* C7 as amended: checkPermission returns false when contextId is not      *)
(* registered; for a registered contextId it never denies: it resolves to  *)
(* true when agent.getState resolves with an agentId that is a public key, *)
(* as it does for both agents of the repository, and raises the error to   *)
(* its caller when getState rejects or the agentId is no public key.       *)
(***************************************************************************)
C7_GrantsOrRaises ==
  CheckDone =>
    /\ ~call.found => call.outcome = Resolved(FALSE)
    /\ call.found =>
         /\ call.settled = "validKey" <=> call.outcome = Resolved(TRUE)
         /\ call.settled # "validKey" <=> call.outcome.kind = "rejected"
         /\ call.agent \in RepositoryAgents => call.settled = "validKey"

\* a registered context, and an agent whose agentId is no public key
C7_Witness ==
  /\ CheckDone
  /\ call.found
  /\ call.settled = "invalidKey"
  /\ call.outcome.kind = "rejected"

(***************************************************************************)
(* C8: whenever the permission check yields false, routeRequest fails with *)
(* the permission-denied error and returns no response envelope.           *)
(***************************************************************************)
C8_DenialIsRaised ==
  (RouteDone /\ call.permission = "denied") =>
    call.outcome = Rejected(PermissionDenied(call.agent, call.contextId))

C8_Witness ==
  /\ RouteDone
  /\ call.permission = "denied"
  /\ call.outcome.kind = "rejected"
  /\ call.outcome.error.error = "PermissionDenied"

(***************************************************************************)
(* C9: when contextId is registered and permission is granted, routeRequest*)
(* returns an envelope with status 'success', the requested contextId, a   *)
(* message naming the definition registered under that id, the request as  *)
(* requestSummary, and a timestamp.                                        *)
(***************************************************************************)
C9_EnvelopeEchoesNameAndRequest ==
  [][ ( /\ call.op = "routeRequest"
        /\ call.pc = "awaitPermission"
        /\ call'.pc = "done"
        /\ call.permission = "granted"
        /\ call.contextId \in RegisteredIds )
      =>
      ( /\ call'.outcome.kind = "resolved"
        /\ call'.outcome.value.status = "success"
        /\ call'.outcome.value.contextId = call.contextId
        /\ call'.outcome.value.data.message =
             <<"Processed request to", latest[call.contextId].name>>
        /\ call'.outcome.value.data.requestSummary = call.request
        /\ call'.outcome.value.timestamp \in Timestamps ) ]_vars

\* an envelope came back for a context whose definition had been replaced
C9_Witness ==
  /\ RouteDone
  /\ call.outcome.kind = "resolved"
  /\ call.contextId \in overwritten

(***************************************************************************)
(* C10: loadContexts raises an error when the directory cannot be listed   *)
(* or a file fails to parse, and does not roll back: the definitions of    *)
(* the files before the failing one stay registered, and the definitions   *)
(* registered before the call are untouched unless one of those files      *)
(* overwrote them.                                                         *)
(***************************************************************************)
\* the files of a listing that loadContexts parses
Parsed(files) == {i \in DOMAIN files : RecognizedExtension(files[i])}

FailingFiles(files) == {i \in Parsed(files) : ~Parses(files[i])}

\* the files processed before the first failing one
Before(files) ==
  {i \in Parsed(files) : \A j \in FailingFiles(files) : i < j}

C10_FailedLoadKeepsPartialLoad ==
  [][ last'.op = "loadContexts" =>
        LET dir == last'.dir
            fails == ~dir.listable \/ FailingFiles(dir.files) # {}
            done == IF dir.listable THEN Before(dir.files) ELSE {}
            loadedIds == {dir.files[i].def.id : i \in done}
            lastOf(id) == CHOOSE i \in done :
                            /\ dir.files[i].def.id = id
                            /\ \A j \in done : dir.files[j].def.id = id => j <= i
        IN  /\ last'.outcome = "error" <=> fails
            /\ fails =>
                 /\ \A id \in loadedIds :
                      /\ MapHas(contexts', id)
                      /\ MapGet(contexts', id) = dir.files[lastOf(id)].def
                 /\ \A id \in ContextIds \ loadedIds :
                      /\ MapHas(contexts', id) <=> MapHas(contexts, id)
                      /\ MapHas(contexts, id) =>
                           MapGet(contexts', id) = MapGet(contexts, id) ]_vars

\* a load failed at its second file, the first file's definition replaced
\* the one registered under its id, and a definition under another id stayed
C10_Witness ==
  /\ last.op = "loadContexts"
  /\ last.outcome = "error"
  /\ last.failedAt = 2
  /\ LET first == last.dir.files[1].def
     IN  /\ first # NoDefinition
         /\ first.id \in overwritten
         /\ MapGet(contexts, first.id) = first
         /\ Len(contexts) = 2

(***************************************************************************)
(* C11: starting from an empty registry, loadContexts on a directory that  *)
(* holds one well-formed context file, followed by findContextsByType with *)
(* the type the file declares, returns exactly one definition, whose       *)
(* fields equal the fields declared in the file.                           *)
(***************************************************************************)
\* the file has a context file's extension and text in the format that the
\* parser for that extension reads
WellFormed(file) ==
  \/ file.ext = ".json" /\ file.format = "json"
  \/ file.ext \in {".yaml", ".yml"} /\ file.format \in {"yaml", "json"}

ContextFiles(files) == {i \in DOMAIN files : files[i].ext \in {".yaml", ".yml", ".json"}}

\* the load was of a directory with one context file, well-formed, into an
\* empty registry, and the query that followed asked for the file's type
RoundTrip ==
  /\ last.op = "findContextsByType"
  /\ last.after.op = "loadContexts"
  /\ last.after.sizeBefore = 0
  /\ last.after.dir.listable
  /\ \E i \in DOMAIN last.after.dir.files :
       /\ ContextFiles(last.after.dir.files) = {i}
       /\ WellFormed(last.after.dir.files[i])
       /\ last.type = last.after.dir.files[i].def.type

C11_RoundTrip ==
  RoundTrip =>
    /\ last.after.outcome = "ok"
    /\ \E i \in ContextFiles(last.after.dir.files) :
         last.result = <<last.after.dir.files[i].def>>

\* the round trip through a YAML file with a block list and a comment
C11_Witness ==
  /\ RoundTrip
  /\ last.result = <<JupiterDex>>
  /\ \E i \in DOMAIN last.after.dir.files : last.after.dir.files[i].format = "yaml"

(***************************************************************************)
(* C12: for each of the two agents and every instruction whose parsed      *)
(* action is not one of that agent's recognized action tags,               *)
(* processInstruction returns an envelope with success = false and         *)
(* error.code = 400.                                                       *)
(***************************************************************************)
RecognizedTags(kind) ==
  IF kind = "SolanaDeFiAgent"
    THEN {"swap", "addLiquidity", "checkPrice"}
    ELSE {"listNFT", "buyNFT", "checkCollection", "mintNFT"}

\* processInstruction has run on an instruction that the parser resolved
Dispatched == resp.op = "processInstruction" /\ resp.parse.kind = "resolved"

C12_UnrecognizedActionIs400 ==
  (Dispatched /\ resp.parse.value.action \notin RecognizedTags(agent.kind)) =>
    /\ resp.result.kind = "resolved"
    /\ resp.result.value.success = FALSE
    /\ resp.result.value.error.code = 400

\* the NFT agent is handed an action that the DeFi agent recognizes
C12_Witness ==
  /\ Dispatched
  /\ agent.kind = "NFTMarketAgent"
  /\ resp.parse.value.action = "swap"
  /\ resp.result = Unsupported("swap")

(***************************************************************************)
(* C13: every AgentResponse that processInstruction returns has, when      *)
(* success is false, an error field whose code is 400 or 500, and, when    *)
(* success is true, no error field.                                        *)
(***************************************************************************)
Returned == resp.op = "processInstruction" /\ resp.result.kind = "resolved"

C13_ErrorIffFailure ==
  Returned =>
    LET response == resp.result.value
    IN  IF response.success
          THEN "error" \notin DOMAIN response
          ELSE /\ "error" \in DOMAIN response
               /\ response.error.code \in {400, 500}

\* a failure of the parser comes back as a 500 envelope
C13_Witness ==
  /\ Returned
  /\ resp.parse.kind = "rejected"
  /\ resp.result.value.success = FALSE
  /\ resp.result.value.error.code = 500

(***************************************************************************)
(* C14: getState reports the configuration the agent was constructed       *)
(* with: the supported dexes or marketplaces and the default slippage or   *)
(* royalty given to the constructor, for every non-negative value of the   *)
(* numeric setting.                                                        *)
(***************************************************************************)
C14_GetStateReportsGiven ==
  resp.op = "getState" =>
    /\ resp.result.kind = "resolved"
    /\ agent.given.supported # Absent =>
         resp.result.value.supported = agent.given.supported[1]
    /\ agent.given.defaultBps # Absent =>
         resp.result.value.defaultBps = agent.given.defaultBps[1]

\* the same for the values other than 0
C14_GetStateReportsGivenPositive ==
  resp.op = "getState" =>
    /\ resp.result.kind = "resolved"
    /\ agent.given.supported # Absent =>
         resp.result.value.supported = agent.given.supported[1]
    /\ (agent.given.defaultBps # Absent /\ agent.given.defaultBps # Some(0)) =>
         resp.result.value.defaultBps = agent.given.defaultBps[1]

(***************************************************************************)
(* C16: in processInstruction each recognized action tag goes to one       *)
(* domain handler and yields a success envelope: swap, addLiquidity and    *)
(* checkPrice for SolanaDeFiAgent, and listNFT, buyNFT, checkCollection    *)
(* and mintNFT for NFTMarketAgent, each return success = true with data    *)
(* that echoes the parsed parameters of the action.                        *)
(***************************************************************************)
\* the field of data under which a handler reports a parameter
DataName(param) ==
  CASE param = "maxPrice" -> "pricePaid"
    [] OTHER -> param

\* the value a handler is given for a parameter: listNFT's marketplace
\* falls back to the agent's first marketplace
Argument(self, params, param) ==
  IF param = "marketplace" /\ params[param] = Missing
    THEN self.supported[1]
    ELSE params[param]

Echoes(self, params, data) ==
  \A param \in DOMAIN params :
    /\ DataName(param) \in DOMAIN data
    /\ data[DataName(param)] = Argument(self, params, param)

C16_RecognizedActionSucceeds ==
  (Dispatched /\ resp.parse.value.action \in RecognizedTags(agent.kind)) =>
    /\ resp.result.kind = "resolved"
    /\ resp.result.value.success = TRUE
    /\ Echoes(agent, resp.parse.value.params, resp.result.value.data)

\* the same for parameters that a template literal can print
C16_PrintableActionSucceeds ==
  (/\ Dispatched
   /\ resp.parse.value.action \in RecognizedTags(agent.kind)
   /\ ~Throws(Range(resp.parse.value.params))) =>
    /\ resp.result.kind = "resolved"
    /\ resp.result.value.success = TRUE
    /\ Echoes(agent, resp.parse.value.params, resp.result.value.data)

(***************************************************************************)
(* C15: a context definition is never deleted: an id that registerContext  *)
(* or loadContexts has registered is registered in every later state,      *)
(* whatever router operations follow; the set of registered ids never      *)
(* shrinks.                                                                *)
(***************************************************************************)
MapKeys(m) == {m[i].key : i \in DOMAIN m}

C15_IdsNeverShrink ==
  /\ [](RegisteredIds \subseteq MapKeys(contexts))
  /\ [][MapKeys(contexts) \subseteq MapKeys(contexts')]_vars

\* both ids are held after a replacement and a load that failed
C15_Witness ==
  /\ last.op = "loadContexts"
  /\ last.outcome = "error"
  /\ overwritten # {}
  /\ MapKeys(contexts) = ContextIds

(***************************************************************************)
(* C17: whatever registerContext calls run while a routeRequest is         *)
(* suspended inside checkPermission, the 'Context not found' branch of     *)
(* routeRequest is never taken: an id that checkPermission found is still  *)
(* registered when routeRequest looks it up, and the envelope echoes the   *)
(* name of the definition registered under the id at the lookup, the       *)
(* latest one if it was replaced during the suspension.                    *)
(***************************************************************************)
Suspended == call.found /\ call.pc \in {"awaitState", "awaitPermission"}

C17_NotFoundIsNeverTaken ==
  /\ [](call.outcome # Rejected(NotFound(call.contextId)))
  /\ [](Suspended => MapHas(contexts, call.contextId))
  /\ [][ ( /\ call.op = "routeRequest"
           /\ call.pc = "awaitPermission"
           /\ call'.pc = "done"
           /\ call.found )
         =>
         ( /\ call'.outcome.kind = "resolved"
           /\ call'.outcome.value.data.message =
                <<"Processed request to", MapGet(contexts, call.contextId).name>>
           /\ MapGet(contexts, call.contextId) = latest[call.contextId] ) ]_vars

\* the definition was replaced by one of another name during the suspension
C17_Witness ==
  /\ RouteDone
  /\ call.found
  /\ call.seen.name # latest[call.contextId].name
  /\ call.outcome.kind = "resolved"
  /\ call.outcome.value.data.message =
       <<"Processed request to", latest[call.contextId].name>>

(***************************************************************************)
(* C18: findContextsByCapabilities, findContextsByType, checkPermission    *)
(* and routeRequest leave the registry unchanged, whether they succeed or  *)
(* fail: the mapping from id to definition after a step of one of them is  *)
(* the mapping before it; only registerContext and loadContexts modify     *)
(* the registry.                                                           *)
(***************************************************************************)
Queries == {"findContextsByCapabilities", "findContextsByType"}

\* where a checkPermission or routeRequest call is, and for what
Position(c) == <<c.op, c.agent, c.contextId, c.request, c.pc, c.settled, c.permission>>

C18_OnlyRegistrationModifies ==
  [][ /\ (Position(call') # Position(call) \/ last'.op \in Queries) =>
           contexts' = contexts
      /\ contexts' # contexts =>
           /\ last'.op \in {"registerContext", "loadContexts"}
           /\ Position(call') = Position(call) ]_vars

\* a routeRequest was refused and a query ran, and the registry holds what
\* was registered
C18_Witness ==
  /\ RouteDone
  /\ call.outcome.kind = "rejected"
  /\ last.op \in Queries
  /\ contexts # NewMap
  /\ \A id \in RegisteredIds : MapGet(contexts, id) = latest[id]

(***************************************************************************)
(* C19: parseInstruction only produces the action tags swap, addLiquidity, *)
(* checkPrice and unknown, none of which NFTMarketAgent recognizes; so     *)
(* NFTMarketAgent.processInstruction with the parser of the repository     *)
(* answers every instruction text with a failure envelope of error.code    *)
(* 400 and never reaches an NFT handler.                                   *)
(***************************************************************************)
C19_ParserNeverReachesNFTHandlers ==
  resp.op = "processInstruction" =>
    /\ resp.parse.kind = "resolved"
    /\ resp.parse.value.action \in {"swap", "addLiquidity", "checkPrice", "unknown"}
    /\ agent.kind = "NFTMarketAgent" =>
         /\ resp.result = Unsupported(resp.parse.value.action)
         /\ resp.result.value.success = FALSE
         /\ resp.result.value.error.code = 400

\* the NFT agent is told to mint and to list an NFT
C19_Witness ==
  /\ resp.op = "processInstruction"
  /\ agent.kind = "NFTMarketAgent"
  /\ Includes(resp.instruction, <<"m", "i", "n", "t">>)
  /\ Includes(resp.instruction, <<"l", "i", "s", "t", "N", "F", "T">>)
  /\ resp.parse.value.action = "unknown"
  /\ resp.result.value.error.code = 400

====
